---- MODULE Spec2Model ----
(***************************************************************************)
(* The immunization form component                                         *)
(* (src/widgets/immunizations/immunizations-form.component.tsx) as a       *)
(* state machine: the form state held by useState, the params effect, the  *)
(* field handlers and the form-wide change listener, the submit pipeline   *)
(* with its save promises, the close/cancel flow and unmounting.           *)
(***************************************************************************)
EXTENDS Integers, Sequences, FiniteSets, TLC

VARIABLES
    formState,    \* the record held by useState(initialState)
    params,       \* props.match.params
    patientUuid,  \* the identifier given by useCurrentPatient()
    phase,        \* "mounting" (rendered, effect not yet run), "mounted", "unmounted"
    bubbling,     \* a change event has run its input's handler and not yet the form's
    requests,     \* one entry per savePatientImmunization call: "pending" or "settled"
    lastOp,       \* the handler or callback that ran last
    lastArg,      \* its input (event.target.value, the response, confirm()'s answer)
    calls         \* the calls it made on its collaborators, in order

vars == <<formState, params, patientUuid, phase, bubbling, requests, lastOp, lastArg, calls>>

(* ------------------------------ bounds --------------------------------- *)

\* longest event.target.value handed to onDoseSelect
MaxLen == 3
\* number of submit events of one component instance
MaxSubmits == 2

(* ------------------------- JavaScript values --------------------------- *)

Undefined == [t |-> "undefined"]
Null == [t |-> "null"]
Str(s) == [t |-> "string", v |-> s]
Arr(a) == [t |-> "array", v |-> a]

\* ToBoolean, as used by !!x, x && y, x || y
Truthy(x) ==
    CASE x.t = "undefined" -> FALSE
      [] x.t = "null" -> FALSE
      [] x.t = "string" -> x.v # ""
      [] OTHER -> TRUE

\* {} as ImmunizationSequence
EmptyDose == [t |-> "object"]

Dose(n, label) == [t |-> "object", sequenceLabel |-> label, sequenceNumber |-> n]

(* --------------------- strings as character sequences ------------------ *)

DigitValue ==
    [c \in {"0", "1", "2", "3", "4", "5", "6", "7", "8", "9"} |->
        CASE c = "0" -> 0 [] c = "1" -> 1 [] c = "2" -> 2 [] c = "3" -> 3
          [] c = "4" -> 4 [] c = "5" -> 5 [] c = "6" -> 6 [] c = "7" -> 7
          [] c = "8" -> 8 [] c = "9" -> 9]

DecimalDigits == DOMAIN DigitValue

HexValue ==
    [c \in DecimalDigits \cup {"a", "b", "c", "d", "e", "f", "A", "B", "C", "D", "E", "F"} |->
        CASE c \in DecimalDigits -> DigitValue[c]
          [] c \in {"a", "A"} -> 10 [] c \in {"b", "B"} -> 11
          [] c \in {"c", "C"} -> 12 [] c \in {"d", "D"} -> 13
          [] c \in {"e", "E"} -> 14 [] c \in {"f", "F"} -> 15]

HexDigits == DOMAIN HexValue

WhiteSpace == {" "}

RECURSIVE TrimStart(_)
TrimStart(s) ==
    IF s # <<>> /\ Head(s) \in WhiteSpace THEN TrimStart(Tail(s)) ELSE s

RECURSIVE TrimEnd(_)
TrimEnd(s) ==
    IF s # <<>> /\ s[Len(s)] \in WhiteSpace THEN TrimEnd(SubSeq(s, 1, Len(s) - 1)) ELSE s

\* String(n) for a non-negative integer n
RECURSIVE NumberToString(_)
NumberToString(n) ==
    LET d == CHOOSE c \in DecimalDigits : DigitValue[c] = n % 10
    IN  IF n < 10 THEN <<d>> ELSE NumberToString(n \div 10) \o <<d>>

(* StrDecimalLiteral: [+-] (Infinity | digits [. [digits]] [exp] | . digits [exp]) *)
RECURSIVE DecimalRun(_, _)
DecimalRun(q, s) ==
    IF s = <<>> THEN q \in {"int", "frac", "expdigits"}
    ELSE LET c == Head(s)
             next ==
                CASE q = "start" /\ c \in {"+", "-"} -> "signed"
                  [] q \in {"start", "signed", "int"} /\ c \in DecimalDigits -> "int"
                  [] q \in {"start", "signed"} /\ c = "." -> "dot"
                  [] q = "int" /\ c = "." -> "frac"
                  [] q \in {"dot", "frac"} /\ c \in DecimalDigits -> "frac"
                  [] q \in {"int", "frac"} /\ c \in {"e", "E"} -> "exp"
                  [] q = "exp" /\ c \in {"+", "-"} -> "expsigned"
                  [] q \in {"exp", "expsigned", "expdigits"} /\ c \in DecimalDigits -> "expdigits"
                  [] OTHER -> "reject"
         IN  next # "reject" /\ DecimalRun(next, Tail(s))

Infinity == <<"I", "n", "f", "i", "n", "i", "t", "y">>

IsStrDecimalLiteral(s) ==
    \/ DecimalRun("start", s)
    \/ s = Infinity
    \/ s # <<>> /\ Head(s) \in {"+", "-"} /\ Tail(s) = Infinity

\* 0x.., 0o.., 0b.. (no sign)
IsNonDecimalIntegerLiteral(s) ==
    /\ Len(s) >= 3
    /\ s[1] = "0"
    /\ \/ s[2] \in {"x", "X"} /\ \A i \in 3..Len(s) : s[i] \in HexDigits
       \/ s[2] \in {"o", "O"} /\ \A i \in 3..Len(s) : s[i] \in {"0", "1", "2", "3", "4", "5", "6", "7"}
       \/ s[2] \in {"b", "B"} /\ \A i \in 3..Len(s) : s[i] \in {"0", "1"}

\* isNaN(value) for a string: ToNumber(value) is NaN
isNaN(s) ==
    LET t == TrimEnd(TrimStart(s))
    IN  /\ t # <<>>
        /\ ~IsStrDecimalLiteral(t)
        /\ ~IsNonDecimalIntegerLiteral(t)

RECURSIVE DigitPrefix(_, _)
DigitPrefix(s, digits) ==
    IF s # <<>> /\ Head(s) \in digits THEN <<Head(s)>> \o DigitPrefix(Tail(s), digits) ELSE <<>>

RECURSIVE RadixValue(_, _)
RadixValue(s, R) ==
    IF s = <<>> THEN 0 ELSE RadixValue(SubSeq(s, 1, Len(s) - 1), R) * R + HexValue[s[Len(s)]]

\* parseInt(value) without a radix; nan marks the result NaN
parseInt(s) ==
    LET t == TrimStart(s)
        negative == t # <<>> /\ Head(t) = "-"
        u == IF t # <<>> /\ Head(t) \in {"+", "-"} THEN Tail(t) ELSE t
        hex == Len(u) >= 2 /\ u[1] = "0" /\ u[2] \in {"x", "X"}
        R == IF hex THEN 16 ELSE 10
        z == DigitPrefix(IF hex THEN SubSeq(u, 3, Len(u)) ELSE u,
                         IF hex THEN HexDigits ELSE DecimalDigits)
    IN  IF z = <<>> THEN [nan |-> TRUE, val |-> 0]
        ELSE [nan |-> FALSE, val |-> IF negative THEN 0 - RadixValue(z, R) ELSE RadixValue(z, R)]

\* n === parseInt(...) for a number n
StrictEquals(n, p) == ~p.nan /\ n = p.val

(* ------------------------------ the form ------------------------------- *)

\* const initialState: ImmunizationFormState
initialState ==
    [vaccineName |-> Str(""),
     vaccineUuid |-> Str(""),
     immunizationObsUuid |-> Str(""),
     vaccinationDate |-> Null,
     sequences |-> Arr(<<>>),
     currentDose |-> EmptyDose,
     expirationDate |-> Null,
     lotNumber |-> Str(""),
     manufacturer |-> Str(""),
     formChanged |-> FALSE]

\* a setter that spreads the initial state instead of the current one
updateSingleFromInitial(state, name, value) == [initialState EXCEPT ![name] = value]

\* setFormState(state => ({ ...state, [name]: value }))
updateSingle(state, name, value) == [state EXCEPT ![name] = value]

isViewEditMode(state) == Truthy(state.immunizationObsUuid)

enableCreateButtons(state) == ~isViewEditMode(state) /\ Truthy(state.vaccinationDate)

\* edit buttons enabled without looking at formChanged
enableEditButtonsUnchanged(state) == isViewEditMode(state)

enableEditButtons(state) == isViewEditMode(state) /\ state.formChanged

\* the submit button's disabled attribute
submitDisabled(state) ==
    IF isViewEditMode(state) THEN ~enableEditButtons(state) ELSE ~enableCreateButtons(state)

\* sequences && sequences?.length > 0
hasSequences(sequences) == Truthy(sequences) /\ Len(sequences.v) > 0

\* the params' state without the default for a missing currentDose
formStateFromParamNoDefault(p) ==
    [immunizationObsUuid |-> p.immunizationObsUuid,
     vaccineName |-> p.vaccineName,
     vaccineUuid |-> p.vaccineUuid,
     manufacturer |-> p.manufacturer,
     lotNumber |-> p.lotNumber,
     expirationDate |-> p.expirationDate,
     vaccinationDate |-> p.vaccinationDate,
     formChanged |-> FALSE,
     sequences |-> IF hasSequences(p.sequences) THEN p.sequences ELSE Arr(<<>>),
     currentDose |-> p.currentDose]

\* const formStateFromParam: ImmunizationFormState
formStateFromParam(p) ==
    [immunizationObsUuid |-> p.immunizationObsUuid,
     vaccineName |-> p.vaccineName,
     vaccineUuid |-> p.vaccineUuid,
     manufacturer |-> p.manufacturer,
     lotNumber |-> p.lotNumber,
     expirationDate |-> p.expirationDate,
     vaccinationDate |-> p.vaccinationDate,
     formChanged |-> FALSE,
     sequences |-> IF hasSequences(p.sequences) THEN p.sequences ELSE Arr(<<>>),
     currentDose |-> IF Truthy(p.currentDose) THEN p.currentDose ELSE EmptyDose]

\* the body of the effect on [props.match.params]
paramsEffect(state, p) == IF Truthy(p) THEN formStateFromParam(p) ELSE state

\* `/patient/${patientUuid}/chart/immunizations`
listUrl(uuid) == <<"/patient/", uuid, "/chart/immunizations">>

Call(op, arg) == [op |-> op, arg |-> arg]

\* function navigate()
navigate(uuid) == <<Call("history.push", listUrl(uuid)), Call("closeComponent", <<>>)>>

\* function isNumber(value)
isNumber(value) == ~isNaN(value)

\* Array.prototype.find over formState.sequences with onDoseSelect's predicate
RECURSIVE findDose(_, _)
findDose(seqs, value) ==
    IF seqs = <<>> THEN Undefined
    ELSE IF isNumber(value) /\ StrictEquals(Head(seqs).sequenceNumber, parseInt(value))
         THEN Head(seqs)
         ELSE findDose(Tail(seqs), value)

\* the selection without the isNumber test
RECURSIVE findDoseParsed(_, _)
findDoseParsed(seqs, value) ==
    IF seqs = <<>> THEN Undefined
    ELSE IF StrictEquals(Head(seqs).sequenceNumber, parseInt(value))
         THEN Head(seqs)
         ELSE findDoseParsed(Tail(seqs), value)

onDoseSelectParsed(state, value) ==
    LET found == findDoseParsed(state.sequences.v, value)
    IN  updateSingle(state, "currentDose", IF Truthy(found) THEN found ELSE EmptyDose)

\* const onDoseSelect = event => ...   (value is event.target.value)
onDoseSelect(state, value) ==
    LET found == findDose(state.sequences.v, value)
        currentDose == IF Truthy(found) THEN found ELSE EmptyDose
    IN  updateSingle(state, "currentDose", currentDose)

\* a then-callback that navigates whatever the status
onFulfilledAnyStatus(status, uuid) == navigate(uuid)

\* the then-callback of the save promise
onFulfilled(status, uuid) == IF status = 200 THEN navigate(uuid) ELSE <<>>

\* the rejection callback of the save promise: createErrorHandler itself
onRejected == <<Call("createErrorHandler", <<>>)>>

\* a closeForm that asks for confirmation whether or not the form changed
closeFormAlwaysAsks(state, answer, uuid) ==
    LET leave == <<Call("entryCancelled", <<>>),
                   Call("history.push", listUrl(uuid)),
                   Call("closeComponent", <<>>)>>
    IN  <<Call("confirm", <<>>)>> \o
        (IF (answer /\ state.formChanged) \/ ~state.formChanged THEN leave ELSE <<>>)

\* a closeForm whose second branch is a plain else
closeFormElseLeaves(state, answer, uuid) ==
    LET userConfirmed == IF state.formChanged THEN answer ELSE FALSE
        prompt == IF state.formChanged THEN <<Call("confirm", <<>>)>> ELSE <<>>
        leave == <<Call("entryCancelled", <<>>),
                   Call("history.push", listUrl(uuid)),
                   Call("closeComponent", <<>>)>>
    IN  prompt \o leave

\* const closeForm = event => ...   (answer is what confirm() returns when asked)
closeForm(state, answer, uuid) ==
    LET asked == state.formChanged
        userConfirmed == IF state.formChanged THEN answer ELSE FALSE
        prompt == IF asked THEN <<Call("confirm", <<>>)>> ELSE <<>>
        leave == <<Call("entryCancelled", <<>>),
                   Call("history.push", listUrl(uuid)),
                   Call("closeComponent", <<>>)>>
    IN  prompt \o
        (IF userConfirmed /\ state.formChanged THEN leave
         ELSE IF ~state.formChanged THEN leave
         ELSE <<>>)

(* ------------------------------- inputs -------------------------------- *)

Seqs2 == <<Dose(1, "Dose-1"), Dose(2, "Dose-2")>>

\* a schedule whose numbers are out of order and repeat
Seqs3 == <<Dose(2, "Dose-2"), Dose(10, "Booster-1"), Dose(2, "Repeat-2")>>

Params(obs, date, seqs, dose, rest) ==
    [t |-> "object",
     immunizationObsUuid |-> obs,
     vaccineName |-> Str("Rotavirus"),
     vaccineUuid |-> Str("RotavirusUuid"),
     manufacturer |-> rest[1],
     lotNumber |-> rest[2],
     expirationDate |-> rest[3],
     vaccinationDate |-> date,
     sequences |-> seqs,
     currentDose |-> dose]

RestGiven == <<Str("Organization-1"), Str("Lot-1"), Str("2025-01-01")>>

RestAbsent == <<Undefined, Undefined, Undefined>>

\* the navigation parameters of the component's life in Spec
MainParams ==
    {Undefined,
     Params(Undefined, Undefined, Undefined, Undefined, RestAbsent),
     Params(Undefined, Undefined, Arr(Seqs2), Undefined, RestAbsent),
     Params(Str("obs-1"), Str("2020-01-01"), Arr(<<>>), Undefined, RestGiven),
     Params(Str("obs-1"), Str("2020-01-01"), Arr(Seqs2), Seqs2[2], RestGiven)}

\* the navigation parameters of SpecMount
AllParams ==
    {Undefined} \cup
    {Params(obs, date, seqs, dose, rest) :
        obs \in {Undefined, Str(""), Str("obs-1")},
        date \in {Undefined, Null, Str("2020-01-01")},
        seqs \in {Undefined, Null, Arr(<<>>), Arr(Seqs2), Arr(Seqs3)},
        dose \in {Undefined, Null, Seqs2[1], Seqs3[2]},
        rest \in {RestAbsent, RestGiven}}

PatientUuids == {"patient-1", "patient-2"}

\* what a date input gives as its value
DateValues == {Str(""), Str("2021-05-05")}

TextValues == {Str("text-2")}

Statuses == {200, 201, 500}

Outcomes == [kind : {"resolved"}, status : Statuses] \cup {[kind |-> "rejected", status |-> 0]}

\* the option values the sequence dropdown renders
OptionValues(state) ==
    {<<"D", "E", "F", "A", "U", "L", "T">>} \cup
    {NumberToString(state.sequences.v[i].sequenceNumber) : i \in DOMAIN state.sequences.v}

Alphabet == {"0", "1", "2", ".", "-", " ", "e", "x", "a"}

Strings(n) == UNION {[1..k -> Alphabet] : k \in 0..n}

\* the values SpecDose hands to onDoseSelect
AnyValues == Strings(MaxLen) \cup {<<"D", "E", "F", "A", "U", "L", "T">>, Infinity}

(* ------------------------------- actions ------------------------------- *)

Idle == phase = "mounted" /\ ~bubbling

\* the first run of the params effect, after the first render
Mount ==
    /\ phase = "mounting"
    /\ phase' = "mounted"
    /\ formState' = paramsEffect(formState, params)
    /\ lastOp' = "paramsEffect"
    /\ lastArg' = params
    /\ calls' = <<>>
    /\ UNCHANGED <<params, patientUuid, bubbling, requests>>

\* props.match.params changes and the effect runs again
ParamsChanged(p) ==
    /\ Idle
    /\ p # params
    /\ params' = p
    /\ formState' = paramsEffect(formState, p)
    /\ lastOp' = "paramsEffect"
    /\ lastArg' = p
    /\ calls' = <<>>
    /\ UNCHANGED <<patientUuid, phase, bubbling, requests>>

\* an input's own onChange: updateSingle(name, evt.target.value)
FieldChange(name, value) ==
    /\ Idle
    /\ formState' = updateSingle(formState, name, value)
    /\ bubbling' = TRUE
    /\ lastOp' = "updateSingle"
    /\ lastArg' = value
    /\ calls' = <<>>
    /\ UNCHANGED <<params, patientUuid, phase, requests>>

\* the sequence dropdown's onChange
DoseSelect(value) ==
    /\ Idle
    /\ hasSequences(formState.sequences)
    /\ formState' = onDoseSelect(formState, value)
    /\ bubbling' = TRUE
    /\ lastOp' = "onDoseSelect"
    /\ lastArg' = value
    /\ calls' = <<>>
    /\ UNCHANGED <<params, patientUuid, phase, requests>>

\* the form's onChange, reached by every change event of an input inside it
FormOnChange ==
    /\ phase = "mounted"
    /\ bubbling
    /\ formState' = updateSingle(formState, "formChanged", TRUE)
    /\ bubbling' = FALSE
    /\ lastOp' = "formOnChange"
    /\ lastArg' = Undefined
    /\ calls' = <<Call("entryStarted", <<>>)>>
    /\ UNCHANGED <<params, patientUuid, phase, requests>>

\* the form's onSubmit, raised through the submit button
HandleFormSubmit ==
    /\ Idle
    /\ ~submitDisabled(formState)
    /\ Len(requests) < MaxSubmits
    /\ requests' = Append(requests, "pending")
    /\ lastOp' = "handleFormSubmit"
    /\ lastArg' = Undefined
    /\ calls' = <<Call("event.preventDefault", <<>>),
                  Call("savePatientImmunization", <<patientUuid>>)>>
    /\ UNCHANGED <<formState, params, patientUuid, phase, bubbling>>

\* the save promise of request i settles and its callback runs
SaveSettled(i, outcome) ==
    /\ ~bubbling
    /\ phase # "mounting"
    /\ i \in DOMAIN requests
    /\ requests[i] = "pending"
    /\ requests' = [requests EXCEPT ![i] = "settled"]
    /\ lastOp' = "saveSettled"
    /\ lastArg' = outcome
    /\ calls' = IF outcome.kind = "resolved"
                THEN onFulfilled(outcome.status, patientUuid)
                ELSE onRejected
    /\ UNCHANGED <<formState, params, patientUuid, phase, bubbling>>

\* the cancel button's onClick
CloseForm(answer) ==
    /\ Idle
    /\ formState.formChanged \/ answer = FALSE
    /\ lastOp' = "closeForm"
    /\ lastArg' = (formState.formChanged /\ answer)
    /\ calls' = closeForm(formState, answer, patientUuid)
    /\ UNCHANGED <<formState, params, patientUuid, phase, bubbling, requests>>

\* the host removes the component; nothing the component registered runs
Unmount ==
    /\ Idle
    /\ phase' = "unmounted"
    /\ lastOp' = "unmount"
    /\ lastArg' = Undefined
    /\ calls' = <<>>
    /\ UNCHANGED <<formState, params, patientUuid, bubbling, requests>>

Init ==
    /\ formState = initialState
    /\ params \in MainParams
    /\ patientUuid \in PatientUuids
    /\ phase = "mounting"
    /\ bubbling = FALSE
    /\ requests = <<>>
    /\ lastOp = "useState"
    /\ lastArg = Undefined
    /\ calls = <<>>

Next ==
    \/ Mount
    \/ \E p \in MainParams : ParamsChanged(p)
    \/ \E v \in DateValues : FieldChange("vaccinationDate", v)
    \/ \E v \in DateValues : FieldChange("expirationDate", v)
    \/ \E v \in TextValues : FieldChange("lotNumber", v)
    \/ \E v \in TextValues : FieldChange("manufacturer", v)
    \/ \E v \in OptionValues(formState) : DoseSelect(v)
    \/ FormOnChange
    \/ HandleFormSubmit
    \/ \E i \in 1..MaxSubmits, o \in Outcomes : SaveSettled(i, o)
    \/ \E a \in BOOLEAN : CloseForm(a)
    \/ Unmount

Spec == Init /\ [][Next]_vars

(* ---------------- onDoseSelect on arbitrary selected values ------------- *)

DoseParams ==
    {Params(Undefined, Undefined, Arr(Seqs2), Undefined, RestAbsent),
     Params(Str("obs-1"), Str("2020-01-01"), Arr(Seqs2), Seqs2[2], RestGiven),
     Params(Str("obs-1"), Str("2020-01-01"), Arr(Seqs3), Seqs3[2], RestGiven)}

InitDose ==
    /\ params \in DoseParams
    /\ formState = formStateFromParam(params)
    /\ patientUuid \in PatientUuids
    /\ phase = "mounted"
    /\ bubbling = FALSE
    /\ requests = <<>>
    /\ lastOp = "paramsEffect"
    /\ lastArg = params
    /\ calls = <<>>

NextDose ==
    \/ \E v \in AnyValues : DoseSelect(v)
    \/ FormOnChange

SpecDose == InitDose /\ [][NextDose]_vars

(* ------------------ the params effect on arbitrary params --------------- *)

InitMount ==
    /\ formState = initialState
    /\ params \in AllParams
    /\ patientUuid \in PatientUuids
    /\ phase = "mounting"
    /\ bubbling = FALSE
    /\ requests = <<>>
    /\ lastOp = "useState"
    /\ lastArg = Undefined
    /\ calls = <<>>

NextMount ==
    \/ Mount
    \/ \E p \in AllParams : ParamsChanged(p)

SpecMount == InitMount /\ [][NextMount]_vars

(* ------------------------------- claims -------------------------------- *)

HasCall(cs, op) == \E i \in DOMAIN cs : cs[i].op = op

Navigates(cs) == HasCall(cs, "history.push") \/ HasCall(cs, "closeComponent")

PushToList == [op |-> "history.push", arg |-> <<"/patient/", patientUuid, "/chart/immunizations">>]

CloseComponent == [op |-> "closeComponent", arg |-> <<>>]

EntryCancelled == [op |-> "entryCancelled", arg |-> <<>>]

Pending == {i \in DOMAIN requests : requests[i] = "pending"}

\* C1: a save that is rejected, or that resolves with a status other than 200,
\* does not navigate (no history.push, no closeComponent) and is forwarded to
\* the shared error handler.
C1_FailedSaveReachesErrorHandler ==
    (lastOp = "saveSettled" /\ (lastArg.kind = "rejected" \/ lastArg.status # 200))
        => (~Navigates(calls) /\ HasCall(calls, "createErrorHandler"))

\* C2: a save response with status 200 makes the callback call history.push to
\* the patient's immunization list and then closeComponent; the submit pipeline
\* navigates or closes in no other step: not in handleFormSubmit, and in a
\* save callback only for a status-200 response to a request that an earlier
\* handleFormSubmit issued and that was still pending.
C2_NavigateOnlyAfter200 ==
    [][/\ (lastOp' = "saveSettled" /\ lastArg'.kind = "resolved" /\ lastArg'.status = 200)
            => calls' = <<PushToList, CloseComponent>>
       /\ (lastOp' = "saveSettled" /\ Navigates(calls'))
            => /\ lastArg'.kind = "resolved" /\ lastArg'.status = 200
               /\ \E i \in Pending : requests'[i] = "settled"
       /\ lastOp' = "handleFormSubmit" => ~Navigates(calls')]_vars

C2_Witness ==
    /\ lastOp = "saveSettled"
    /\ lastArg.kind = "resolved" /\ lastArg.status = 200
    /\ calls = <<PushToList, CloseComponent>>

\* C3: the form is in edit mode exactly when immunizationObsUuid is a non-empty
\* string, and the submit button is enabled exactly when (create mode and the
\* vaccination date is a non-empty string) or (edit mode and formChanged).
C3_SubmitEnabledExactly ==
    LET obs == formState.immunizationObsUuid
        date == formState.vaccinationDate
        edit == obs.t = "string" /\ obs.v # ""
        dateSet == date.t = "string" /\ date.v # ""
    IN  /\ isViewEditMode(formState) <=> edit
        /\ ~submitDisabled(formState)
              <=> ((~edit /\ dateSet) \/ (edit /\ formState.formChanged))

\* create mode, a save was issued (the button was enabled), and the vaccination
\* date has just been cleared: the button is disabled again
C3_Witness ==
    /\ lastOp = "updateSingle"
    /\ lastArg = Str("")
    /\ formState.vaccinationDate = Str("")
    /\ formState.expirationDate # Str("")
    /\ ~isViewEditMode(formState)
    /\ requests # <<>>
    /\ submitDisabled(formState)

\* C4: closeForm on an unmodified form does not call confirm and calls
\* entryCancelled, history.push to the immunization list and closeComponent, in
\* that order; on a modified form it calls confirm first, and when the user
\* confirms the same three calls follow in the same order.
C4_CloseFormSteps ==
    lastOp = "closeForm" =>
        IF ~formState.formChanged
        THEN calls = <<EntryCancelled, PushToList, CloseComponent>>
        ELSE /\ calls # <<>>
             /\ Head(calls).op = "confirm"
             /\ ~HasCall(Tail(calls), "confirm")
             /\ lastArg = TRUE => Tail(calls) = <<EntryCancelled, PushToList, CloseComponent>>

C4_Witness ==
    /\ lastOp = "closeForm"
    /\ formState.formChanged
    /\ lastArg = TRUE
    /\ Len(calls) = 4

\* C5: closeForm on a modified form whose confirmation the user declines leaves
\* the form state (formChanged included) as it was, calls none of
\* entryCancelled, history.push and closeComponent, and leaves the form mounted.
C5_DeclinedCloseChangesNothing ==
    [][(lastOp' = "closeForm" /\ formState.formChanged /\ lastArg' = FALSE)
          => /\ formState' = formState
             /\ phase' = phase
             /\ requests' = requests
             /\ ~HasCall(calls', "entryCancelled")
             /\ ~Navigates(calls')]_vars

C5_Witness ==
    /\ lastOp = "closeForm"
    /\ formState.formChanged
    /\ lastArg = FALSE
    /\ calls = <<[op |-> "confirm", arg |-> <<>>]>>
    /\ phase = "mounted"

\* C6: at any moment a component instance has at most one outstanding save
\* request.
C6_AtMostOneOutstanding == Cardinality(Pending) <= 1

\* C7: once the component is unmounted, a save response never triggers
\* history.push or closeComponent (the request in flight was aborted).
C7_NoNavigationAfterUnmount ==
    (phase = "unmounted" /\ lastOp = "saveSettled") => ~Navigates(calls)

\* C8: onDoseSelect changes no field but currentDose; currentDose becomes the
\* empty default when the selected value is not numeric or when no sequence has
\* the parsed integer as its sequenceNumber, and otherwise the (first) sequence
\* of formState.sequences whose sequenceNumber is the parsed integer.
C8_DoseSelected ==
    [][lastOp' = "onDoseSelect" =>
        LET v == lastArg'
            seqs == formState.sequences.v
            n == parseInt(v)
            matches == {i \in DOMAIN seqs : ~n.nan /\ seqs[i].sequenceNumber = n.val}
            first == CHOOSE i \in matches : \A j \in matches : i <= j
        IN  /\ DOMAIN formState' = DOMAIN formState
            /\ \A f \in DOMAIN formState \ {"currentDose"} : formState'[f] = formState[f]
            /\ IF isNaN(v) \/ matches = {}
               THEN formState'.currentDose = EmptyDose
               ELSE formState'.currentDose = seqs[first]]_vars

C8_Witness ==
    /\ lastOp = "onDoseSelect"
    /\ lastArg = <<"2", ".", "0">>
    /\ formState.sequences = Arr(Seqs3)
    /\ formState.currentDose = Seqs3[1]

\* C9: formChanged is false after mount and after navigation parameters are
\* loaded; the form-wide change listener sets it; once set it stays set under
\* every field change, submit, save callback and close; so in edit mode the
\* submit button is disabled exactly while formChanged is false.
C9_DirtyFlag ==
    /\ [](lastOp = "useState" => ~formState.formChanged)
    /\ [][phase = "mounting" /\ phase' = "mounted" => ~formState'.formChanged]_vars
    /\ [][lastOp' = "paramsEffect" /\ Truthy(params') => ~formState'.formChanged]_vars
    /\ [][lastOp' = "formOnChange" => formState'.formChanged]_vars
    /\ [][(formState.formChanged /\ lastOp' # "paramsEffect") => formState'.formChanged]_vars
    /\ [](isViewEditMode(formState) => (submitDisabled(formState) <=> ~formState.formChanged))

C9_Witness ==
    /\ lastOp = "closeForm"
    /\ lastArg = FALSE
    /\ isViewEditMode(formState)
    /\ formState.formChanged
    /\ requests # <<>>
    /\ ~submitDisabled(formState)

\* C10: after the params effect runs on navigation parameters, every field of
\* the form state is the parameters' value, formChanged is false, sequences is
\* the given list when it is a non-empty list and the empty list otherwise,
\* currentDose is the given dose when there is one and the empty default
\* otherwise, and the form is in edit mode when the parameters carry a
\* non-empty observation identifier.
C10_StateFromParams ==
    (lastOp = "paramsEffect" /\ params.t = "object") =>
        /\ DOMAIN formState = DOMAIN initialState
        /\ \A f \in {"immunizationObsUuid", "vaccineName", "vaccineUuid", "manufacturer",
                     "lotNumber", "expirationDate", "vaccinationDate"} :
                formState[f] = params[f]
        /\ formState.formChanged = FALSE
        /\ formState.sequences =
              IF params.sequences.t = "array" /\ params.sequences.v # <<>>
              THEN params.sequences ELSE [t |-> "array", v |-> <<>>]
        /\ formState.currentDose =
              IF params.currentDose.t = "object"
              THEN params.currentDose ELSE [t |-> "object"]
        /\ (params.immunizationObsUuid.t = "string" /\ params.immunizationObsUuid.v # "")
              => isViewEditMode(formState)

C10_Witness ==
    /\ lastOp = "paramsEffect"
    /\ params.t = "object"
    /\ params.sequences = Arr(Seqs3)
    /\ formState.sequences = Arr(Seqs3)
    /\ formState.currentDose = Seqs3[2]
    /\ formState.manufacturer = Str("Organization-1")
    /\ isViewEditMode(formState)

====
